---- MODULE Spec2Model ----
(***************************************************************************)
(* Model of src/src/index.ts: curry(fn) and the stages it returns.         *)
(*                                                                         *)
(* A client applies curry once to a value fn and then invokes the root     *)
(* stage ("curried", line 31) and the intermediate stages (the arrow       *)
(* closures of line 37) in any order, each time with a finite sequence of  *)
(* arguments.  Every closure created is kept in "stages", so that the same *)
(* stage can be invoked again later (sibling call paths).                  *)
(***************************************************************************)
EXTENDS Integers, Sequences, FiniteSets, TLC

\* ---------------------------------------------------------------- bounds
MaxArity == 3        \* largest declared parameter count of a source function
MaxExtra == 1        \* arguments a call path may hold beyond MaxArity
MaxInvocations == 3  \* stage invocations performed by the client

\* the longest argument list curried is run on
MaxArgs == MaxArity + MaxExtra

\* ------------------------------------------------------- values given to curry
\* A function value: its declared positional parameters, whether a rest
\* parameter follows them, and what its body does with the arguments:
\*   "sum"   (a, b, c) => a + b + c                 (addThreeNumbers, line 47)
\*   "list"  (id, name, email) => ({id, name, email})   (createUser, line 73;
\*           greet, line 63: the result keeps every parameter in its position)
\*   "throw" a function whose body raises its own error
Bodies == {"sum", "list", "throw"}

Functions ==
  { [kind |-> "function", params |-> n, rest |-> r, body |-> b] :
      n \in 0..MaxArity, r \in BOOLEAN, b \in Bodies }

\* Values that are not callable; the compile-time bound F extends Function
\* (line 28) is erased at run time, so a caller can pass any of them.
NonCallables ==
  { [kind |-> k, params |-> 0, rest |-> FALSE, body |-> "none"] :
      k \in {"undefined", "null", "number", "object"} }
  \cup { [kind |-> "string", params |-> n, rest |-> FALSE, body |-> "none"] :
           n \in 0..MaxArity }

IsFunction(f) == f.kind = "function"

\* (mutation of Length: the rest parameter counted as a parameter)
LengthWithRest(f) ==
  IF f.kind = "function"
  THEN [def |-> TRUE, n |-> f.params + (IF f.rest THEN 1 ELSE 0)]
  ELSE IF f.kind = "string" THEN [def |-> TRUE, n |-> f.params]
  ELSE [def |-> FALSE, n |-> 0]

\* fn.length (line 29).  For a function: the number of declared parameters,
\* the rest parameter not counted.  For a string: its length (kept in
\* .params).  For a number or a plain object the property is absent, and the
\* read gives undefined (def = FALSE).  Reading it from undefined or null
\* throws; Curry handles that case before using this operator.
Length(f) ==
  IF f.kind \in {"function", "string"} THEN [def |-> TRUE, n |-> f.params]
  ELSE [def |-> FALSE, n |-> 0]

\* (mutation of Enough: ">" written for ">=")
EnoughStrict(n, ar) == ar.def /\ n > ar.n

\* (mutation of Enough: the test inverted)
EnoughInverted(n, ar) == ar.def /\ n <= ar.n

\* args.length >= arity (line 32); a comparison with undefined is false.
Enough(n, ar) == ar.def /\ n >= ar.n

RECURSIVE SumSeq(_)
SumSeq(s) == IF s = <<>> THEN 0 ELSE s[1] + SumSeq(Tail(s))

Min(a, b) == IF a < b THEN a ELSE b

\* The arguments a function body can see: its declared parameters bound
\* positionally, and everything after them when it has a rest parameter.
\* Extra arguments of a function without a rest parameter are ignored by
\* the ordinary positional call.
Visible(f, args) ==
  IF f.rest THEN args ELSE SubSeq(args, 1, Min(f.params, Len(args)))

\* the number of declared parameters left undefined by a call
Missing(f, args) == IF Len(args) < f.params THEN f.params - Len(args) ELSE 0

\* What a function value does when it is called with args, by anyone.  A
\* result is the tuple of the values it is built from: one number for
\* "sum", the parameters in their positions for "list".  "missing" counts
\* the parameters that were undefined (the result is then NaN for "sum").
ApplyFn(f, args) ==
  IF f.body = "throw"
  THEN [kind |-> "throw", value |-> <<>>, missing |-> 0,
        error |-> "SourceError", origin |-> "fn"]
  ELSE [kind |-> "value",
        value |-> IF f.body = "sum" THEN <<SumSeq(Visible(f, args))>>
                  ELSE Visible(f, args),
        missing |-> Missing(f, args), error |-> "none", origin |-> "none"]

\* -------------------------------------------------------------- the code
\* (mutation of CallFn: only the first fn.length arguments are passed on)
CallFnTruncated(f, args) ==
  IF IsFunction(f)
  THEN [out |-> ApplyFn(f, SubSeq(args, 1, Min(f.params, Len(args)))),
        passed |-> << SubSeq(args, 1, Min(f.params, Len(args))) >>]
  ELSE [out |-> [kind |-> "throw", value |-> <<>>, missing |-> 0,
                 error |-> "TypeError", origin |-> "curried"],
        passed |-> <<>>]

\* (mutation of CallFn: a failure of fn is caught and rethrown wrapped)
CallFnWrapped(f, args) ==
  IF IsFunction(f)
  THEN [out |-> IF ApplyFn(f, args).kind = "throw"
                THEN [ApplyFn(f, args) EXCEPT !.error = "CurryError",
                                              !.origin = "curried"]
                ELSE ApplyFn(f, args),
        passed |-> <<args>>]
  ELSE [out |-> [kind |-> "throw", value |-> <<>>, missing |-> 0,
                 error |-> "TypeError", origin |-> "curried"],
        passed |-> <<>>]

\* return fn(...args) (line 34).  "out" is what the caller of the stage
\* observes, "passed" lists the argument sequences fn was invoked with.
\* Calling a value that is not a function throws a TypeError raised by the
\* call expression itself; fn is then not invoked.
CallFn(f, args) ==
  IF IsFunction(f)
  THEN [out |-> ApplyFn(f, args), passed |-> <<args>>]
  ELSE [out |-> [kind |-> "throw", value |-> <<>>, missing |-> 0,
                 error |-> "TypeError", origin |-> "curried"],
        passed |-> <<>>]

\* (mutation of Concat: the new arguments put in front)
ConcatReversed(args, nextArgs) == nextArgs \o args

\* (mutation of Concat: an empty call counted as one undefined argument,
\*  which the model writes as the value 0)
ConcatPad(args, nextArgs) ==
  IF nextArgs = <<>> THEN Append(args, 0) ELSE args \o nextArgs

\* args.concat(nextArgs) (line 37): a new array, args followed by nextArgs.
Concat(args, nextArgs) == args \o nextArgs

\* The body of curried (lines 32-38) on the arguments it receives: either
\* the call of fn, or a new closure over args.
Curried(f, ar, args) ==
  IF Enough(Len(args), ar)
  THEN [kind |-> "call", out |-> CallFn(f, args).out,
        passed |-> CallFn(f, args).passed, args |-> args]
  ELSE [kind |-> "stage",
        out |-> [kind |-> "stage", value |-> <<>>, missing |-> 0,
                 error |-> "none", origin |-> "none"],
        passed |-> <<>>, args |-> args]

\* A stage: the array it closes over.  "parent" and "supplied" record the
\* invocation that created it (parent 0: created by curry itself).
Stage(args, parent, supplied) ==
  [args |-> args, parent |-> parent, supplied |-> supplied]

\* (mutation of NewStage: the arguments pushed into the parent's own array,
\*  which the new closure then shares)
NewStageShared(stgs, s, supplied, newArgs) ==
  Append([stgs EXCEPT ![s].args = newArgs], Stage(newArgs, s, supplied))

\* The closure returned at line 37 joins the stages the client holds; the
\* stage that was invoked keeps its array.
NewStage(stgs, s, supplied, newArgs) ==
  Append(stgs, Stage(newArgs, s, supplied))

VARIABLES
  fn,       \* the value given to curry
  pc,       \* "start", "curried" (curry returned), "threw" (curry threw)
  arity,    \* const arity = fn.length (line 29)
  stages,   \* the stages created so far; stages[1] is the root, curried
  calls,    \* the argument sequences fn was invoked with, in order
  log       \* the stage invocations made and what each gave back

vars == <<fn, pc, arity, stages, calls, log>>

Init ==
  /\ fn \in Functions \cup NonCallables
  /\ pc = "start"
  /\ arity = [def |-> FALSE, n |-> 0]
  /\ stages = <<>>
  /\ calls = <<>>
  /\ log = <<>>

\* curry(fn) (lines 28-42).  Reading .length of undefined or null throws a
\* TypeError and nothing is returned; for every other value the root stage
\* is returned, and fn is not invoked.
Curry ==
  /\ pc = "start"
  /\ IF fn.kind \in {"undefined", "null"}
     THEN /\ pc' = "threw"
          /\ UNCHANGED <<arity, stages>>
     ELSE /\ pc' = "curried"
          /\ arity' = Length(fn)
          /\ stages' = << Stage(<<>>, 0, <<>>) >>
  /\ UNCHANGED <<fn, calls, log>>

\* One invocation of stage s with the arguments "supplied": received is
\* the argument list curried runs on.
Invoke(s, supplied, received) ==
  LET r == Curried(fn, arity, received)
  IN /\ stages' = IF r.kind = "stage"
                  THEN NewStage(stages, s, supplied, r.args)
                  ELSE stages
     /\ calls' = calls \o r.passed
     /\ log' = Append(log,
                 [stage |-> s, supplied |-> supplied, kind |-> r.out.kind,
                  value |-> r.out.value, missing |-> r.out.missing,
                  error |-> r.out.error, origin |-> r.out.origin,
                  passed |-> r.passed,
                  newStage |-> IF r.kind = "stage" THEN Len(stages) + 1 ELSE 0])
     /\ UNCHANGED <<fn, pc, arity>>

\* curried(...supplied): the root stage invoked directly (line 31).
CallCurried(supplied) ==
  /\ pc = "curried"
  /\ Len(log) < MaxInvocations
  /\ Len(supplied) <= MaxArgs
  /\ Invoke(1, supplied, supplied)

\* (...nextArgs) => curried(...args.concat(nextArgs)): an intermediate
\* stage invoked (line 37).
CallClosure(s, nextArgs) ==
  /\ pc = "curried"
  /\ Len(log) < MaxInvocations
  /\ s \in 2..Len(stages)
  /\ Len(stages[s].args) + Len(nextArgs) <= MaxArgs
  /\ Invoke(s, nextArgs, Concat(stages[s].args, nextArgs))

\* The arguments the client supplies are values never supplied before:
\* the code does not look at the values, and distinct values show in a
\* result every change of order and every value taken from another call.
RECURSIVE Supplied(_)
Supplied(lg) ==
  IF lg = <<>> THEN 0 ELSE Len(lg[Len(lg)].supplied) + Supplied(SubSeq(lg, 1, Len(lg) - 1))

\* k new argument values, k = 0 included
Fresh(k) == [i \in 1..k |-> Supplied(log) + i]

Next ==
  \/ Curry
  \/ \E k \in 0..MaxArgs : CallCurried(Fresh(k))
  \/ \E s \in 2..(MaxInvocations + 1), k \in 0..MaxArgs : CallClosure(s, Fresh(k))

Spec == Init /\ [][Next]_vars

\* ------------------------------------------------- history of a call path
\* The groups of arguments supplied on the way to stage i, in order, read
\* from the invocations that created the stages (not from the arrays the
\* stages hold).
RECURSIVE PathArgs(_, _)
PathArgs(stgs, i) ==
  IF i = 0 \/ stgs[i].parent = 0 THEN <<>>
  ELSE PathArgs(stgs, stgs[i].parent) \o stgs[i].supplied

\* the number of invocations that led from the root to stage i
RECURSIVE Depth(_, _)
Depth(stgs, i) ==
  IF i = 0 \/ stgs[i].parent = 0 THEN 0 ELSE 1 + Depth(stgs, stgs[i].parent)

\* every invocation on the way to stage i supplied at least one argument
RECURSIVE AllNonEmpty(_, _)
AllNonEmpty(stgs, i) ==
  IF i = 0 \/ stgs[i].parent = 0 THEN TRUE
  ELSE stgs[i].supplied # <<>> /\ AllNonEmpty(stgs, stgs[i].parent)

\* every invocation on the way to stage i supplied exactly one argument
RECURSIVE AllUnary(_, _)
AllUnary(stgs, i) ==
  IF i = 0 \/ stgs[i].parent = 0 THEN TRUE
  ELSE Len(stgs[i].supplied) = 1 /\ AllUnary(stgs, stgs[i].parent)

\* all the arguments of the call path that ends with invocation e
Total(e) == PathArgs(stages, e.stage) \o e.supplied

\* what invocation e gave back to its caller
Outcome(e) ==
  [kind |-> e.kind, value |-> e.value, missing |-> e.missing,
   error |-> e.error, origin |-> e.origin]

\* invocation e ended a path of non-empty groups
NonEmptyPath(e) == e.supplied # <<>> /\ AllNonEmpty(stages, e.stage)

Entries == { log[k] : k \in DOMAIN log }

\* ------------------------------------------------------------------ C1
\* C1: for a function of arity n >= 1, whenever a call path made of
\* non-empty groups has supplied exactly n arguments, the invocation that
\* completes it invokes fn with those n arguments in the order they were
\* supplied and gives back what the direct call fn(a1, ..., an) gives.
C1_SplitEqualsDirect ==
  \A e \in Entries :
    (IsFunction(fn) /\ fn.params >= 1 /\ NonEmptyPath(e)
       /\ Len(Total(e)) = fn.params)
    => /\ e.passed = << Total(e) >>
       /\ Outcome(e) = ApplyFn(fn, Total(e))

\* three groups of one argument reach a 3-parameter function whose result
\* keeps them in order
C1_Witness ==
  \E e \in Entries :
    /\ IsFunction(fn) /\ fn.params = 3 /\ fn.body = "list"
    /\ Depth(stages, e.stage) = 2 /\ AllUnary(stages, e.stage)
    /\ Len(e.supplied) = 1
    /\ e.kind = "value" /\ e.value = <<1, 2, 3>>

\* ------------------------------------------------------------------ C2
\* C2: every stage holds exactly the arguments of its own call path, at
\* any time (so no call on a stage changes that stage or a sibling), and
\* every invocation of an intermediate stage that reaches fn gives back fn
\* applied to that stage's prefix followed by the invocation's own
\* arguments; in particular for two invocations of the same stage.
C2_SiblingsIndependent ==
  /\ \A i \in DOMAIN stages : stages[i].args = PathArgs(stages, i)
  /\ \A j, k \in DOMAIN log :
       (IsFunction(fn) /\ j < k /\ log[j].stage = log[k].stage
          /\ log[j].stage >= 2)
       => /\ log[j].kind # "stage" =>
               /\ log[j].passed = << Total(log[j]) >>
               /\ Outcome(log[j]) = ApplyFn(fn, Total(log[j]))
          /\ log[k].kind # "stage" =>
               /\ log[k].passed = << Total(log[k]) >>
               /\ Outcome(log[k]) = ApplyFn(fn, Total(log[k]))
          /\ log[j].kind = "stage" =>
               stages[log[j].newStage].args = Total(log[j])
          /\ log[k].kind = "stage" =>
               stages[log[k].newStage].args = Total(log[k])

\* the same intermediate stage of a 2-parameter function called twice with
\* different arguments, each call giving its own result
C2_Witness ==
  /\ IsFunction(fn) /\ fn.params = 2 /\ fn.body = "list"
  /\ Len(log) = 3
  /\ log[1].newStage = 2 /\ log[2].stage = 2 /\ log[3].stage = 2
  /\ log[2].supplied # log[3].supplied
  /\ log[2].kind = "value" /\ log[3].kind = "value"
  /\ stages[2].args = <<1>>
  /\ log[2].value = <<1, 2>>
  /\ log[3].value = <<1, 3>>

\* ------------------------------------------------------------------ C3
\* C3: an invocation that brings the accumulated arguments beyond the
\* arity invokes fn exactly once, with the whole accumulated sequence, the
\* extra trailing values included.
C3_ExtrasPassedThrough ==
  \A e \in Entries :
    (IsFunction(fn) /\ Len(Total(e)) > fn.params)
    => /\ Len(e.passed) = 1
       /\ e.passed[1] = Total(e)
       /\ Len(e.passed[1]) > fn.params

\* a 3-parameter function whose root stage is given four arguments
C3_Witness ==
  \E e \in Entries :
    /\ IsFunction(fn) /\ fn.params = 3 /\ ~fn.rest
    /\ e.stage = 1 /\ e.supplied = <<1, 2, 3, 4>>
    /\ e.passed = << <<1, 2, 3, 4>> >>
    /\ calls = << <<1, 2, 3, 4>> >>

\* ------------------------------------------------------------------ C4
\* C4: curry itself never invokes fn; an invocation whose accumulated
\* sequence reaches the arity invokes fn exactly once; one that stays
\* below the arity does not invoke fn and returns a new stage over the
\* combined sequence.  fn is invoked by nothing else.
C4_InvokedOnlyWhenEnough ==
  IsFunction(fn) =>
    /\ log = <<>> => calls = <<>>
    /\ \A e \in Entries :
         IF Len(Total(e)) >= fn.params
         THEN Len(e.passed) = 1 /\ e.kind # "stage" /\ e.newStage = 0
         ELSE /\ e.passed = <<>> /\ e.kind = "stage"
              /\ e.newStage \in DOMAIN stages
              /\ stages[e.newStage].args = Total(e)
    /\ Len(calls) = Cardinality({ k \in DOMAIN log : log[k].passed # <<>> })

\* a stage invocation below the arity followed by one that reaches it
C4_Witness ==
  /\ IsFunction(fn) /\ fn.params = 3
  /\ Len(log) = 2
  /\ log[1].kind = "stage" /\ log[1].passed = <<>>
  /\ log[2].stage = log[1].newStage /\ Len(log[2].passed) = 1
  /\ Len(calls) = 1

\* ------------------------------------------------------------------ C5
\* C5: the root stage of a function of arity 0 invokes fn on its first
\* invocation, whatever the number of arguments, gives back fn's result
\* and never returns a further stage.
C5_ArityZeroImmediate ==
  (IsFunction(fn) /\ fn.params = 0) =>
    /\ Len(stages) <= 1
    /\ \A e \in Entries :
         /\ e.stage = 1 /\ e.kind # "stage"
         /\ e.passed = << e.supplied >>
         /\ Outcome(e) = ApplyFn(fn, e.supplied)

\* curry(z)() for a function z without parameters gives z's result
C5_Witness ==
  /\ IsFunction(fn) /\ fn.params = 0 /\ ~fn.rest /\ fn.body # "throw"
  /\ Len(log) >= 1 /\ log[1].supplied = <<>> /\ log[1].kind = "value"

\* ------------------------------------------------------------------ C6
\* C6: for a function fn, the only failure a stage invocation shows is the
\* failure of fn itself, as fn raised it; it is shown exactly when fn fails
\* at the terminal invocation, and an invocation that stays below the
\* arity never fails.
C6_FailurePropagatedUnchanged ==
  IsFunction(fn) =>
    \A e \in Entries :
      /\ e.kind = "throw" =>
           /\ e.error = ApplyFn(fn, Total(e)).error
           /\ e.origin = "fn"
           /\ fn.body = "throw"
           /\ Len(e.passed) = 1
      /\ (fn.body = "throw" /\ Len(Total(e)) >= fn.params)
           => (e.kind = "throw" /\ e.error = "SourceError")
      /\ Len(Total(e)) < fn.params => e.kind = "stage"

\* a failing 2-parameter function, reached at the second invocation
C6_Witness ==
  /\ IsFunction(fn) /\ fn.body = "throw" /\ fn.params = 2
  /\ Len(log) = 2 /\ log[1].kind = "stage"
  /\ log[2].stage = 2 /\ log[2].kind = "throw" /\ log[2].error = "SourceError"

\* ------------------------------------------------------------------ C9
\* C9: on a call path whose invocations all supply at least one argument,
\* each stage returned holds strictly more arguments than its parent, no
\* stage is more than n - 1 invocations away from the root, and so the
\* n-th invocation at the latest invokes fn (arity n >= 1).
C9_ReachesSourceWithinArity ==
  (IsFunction(fn) /\ fn.params >= 1) =>
    /\ \A i \in DOMAIN stages :
         (i >= 2 /\ AllNonEmpty(stages, i))
         => /\ Len(stages[i].args) > Len(stages[stages[i].parent].args)
            /\ Depth(stages, i) < fn.params
    /\ \A e \in Entries :
         NonEmptyPath(e)
         => /\ Depth(stages, e.stage) + 1 <= fn.params
            /\ Depth(stages, e.stage) + 1 = fn.params
                 => (e.kind # "stage" /\ Len(e.passed) = 1)

\* the third one-argument invocation of a 3-parameter function invokes it
C9_Witness ==
  \E e \in Entries :
    /\ IsFunction(fn) /\ fn.params = 3
    /\ NonEmptyPath(e) /\ AllUnary(stages, e.stage) /\ Len(e.supplied) = 1
    /\ Depth(stages, e.stage) + 1 = 3
    /\ Len(e.passed) = 1

\* ----------------------------------------------------------------- C10
\* C10: for arity >= 1, an invocation with zero arguments does not invoke
\* fn and does not fail; it returns a stage holding the same arguments as
\* the stage invoked, however often it is repeated; and a path that
\* contains such invocations still ends with fn applied to the arguments
\* supplied, in order.
C10_EmptyInvocationIsNoOp ==
  (IsFunction(fn) /\ fn.params >= 1) =>
    \A e \in Entries :
      /\ e.supplied = <<>> =>
           /\ e.kind = "stage" /\ e.passed = <<>>
           /\ stages[e.newStage].args = stages[e.stage].args
           /\ stages[e.newStage].args = PathArgs(stages, e.stage)
      /\ (e.kind # "stage" /\ ~AllNonEmpty(stages, e.stage)) =>
           /\ e.passed = << Total(e) >>
           /\ Outcome(e) = ApplyFn(fn, Total(e))

\* a stage invoked with no argument, then the stage it returned given the
\* remaining arguments
C10_Witness ==
  /\ IsFunction(fn) /\ fn.params = 2 /\ fn.body = "list"
  /\ Len(log) = 3
  /\ log[1].supplied = <<1>> /\ log[1].newStage = 2
  /\ log[2].stage = 2 /\ log[2].supplied = <<>> /\ log[2].newStage = 3
  /\ log[3].stage = 3 /\ log[3].supplied = <<2>>
  /\ log[3].kind = "value" /\ log[3].value = <<1, 2>>

\* ------------------------------------------------------------------ C7
\* C7: curry applied to a value that is not callable fails at once: it
\* returns no stage.
C7_NonCallableRejected ==
  ~IsFunction(fn) => (pc # "curried" /\ stages = <<>>)

\* ---------------------------------------------------- the declared type
\* The static type of a function value: the types of its declared
\* parameters, whether a rest parameter follows, and its result type
\* (the examples of lines 47, 63 and 73 give the shapes).
FunctionType(f) ==
  [params |-> [i \in 1..f.params |-> "number"],
   rest |-> f.rest,
   ret |-> IF f.body = "sum" THEN "number"
           ELSE IF f.body = "list" THEN "object" ELSE "never"]

\* "infer Ai" at position i of a pattern matched against F: the type of
\* F's i-th parameter, the element type of its rest parameter beyond the
\* declared ones, and unknown when F gives no candidate.
InferParam(F, i) ==
  IF i <= Len(F.params) THEN F.params[i]
  ELSE IF F.rest THEN "number" ELSE "unknown"

\* "...rest: infer AR" after k leading parameters: what F declares after
\* position k (the empty tuple when F has no more than k parameters).
InferRest(F, k) ==
  [params |-> SubSeq(F.params, k + 1, Len(F.params)), rest |-> F.rest]

\* one stage (a: T) => ...
Unary(T) == [params |-> <<T>>, rest |-> FALSE]

\* F extends (arg1: infer A1, ..., argk: infer Ak, ...rest: infer AR) => infer R
\* (lines 11, 13, 15).  A function type with fewer parameters is assignable
\* to one with more, so every function type matches, for every k.
Matches(F, k) == Len(F.params) >= 0

\* CurriedFunction<F> (lines 10-17): the list of the stages' parameter
\* lists and the type the last stage returns.  The branches are tried in
\* the order written; each result type ends with the stage
\* (...rest: AR) => R.
CurriedFunction(F) ==
  IF Matches(F, 3)
  THEN [stages |-> << Unary(InferParam(F, 1)), Unary(InferParam(F, 2)),
                      Unary(InferParam(F, 3)), InferRest(F, 3) >>,
        ret |-> F.ret]
  ELSE IF Matches(F, 2)
  THEN [stages |-> << Unary(InferParam(F, 1)), Unary(InferParam(F, 2)),
                      InferRest(F, 2) >>,
        ret |-> F.ret]
  ELSE IF Matches(F, 1)
  THEN [stages |-> << Unary(InferParam(F, 1)), InferRest(F, 1) >>,
        ret |-> F.ret]
  ELSE [stages |-> << [params |-> F.params, rest |-> F.rest] >>, ret |-> F.ret]

\* the type of an expression of type T applied k times (k <= Len(T.stages))
TypeAfter(T, k) ==
  [stages |-> SubSeq(T.stages, k + 1, Len(T.stages)), ret |-> T.ret]

\* the result type R itself: no stage left
ResultType(F) == [stages |-> <<>>, ret |-> F.ret]

\* ------------------------------------------------------------------ C8
\* C8: for a function with n declared parameters and no rest parameter,
\* n in 1..3, the declared type of curry(fn) is a chain of exactly n
\* one-argument stages, and the one-argument invocation at which the
\* running chain gives back fn's result is the one at which the declared
\* type is fn's result type.
C8_DeclaredChainMatchesRuntime ==
  (IsFunction(fn) /\ ~fn.rest /\ fn.params \in 1..3) =>
    \A e \in Entries :
      (AllUnary(stages, e.stage) /\ Len(e.supplied) = 1 /\ e.kind = "value")
      => /\ Len(CurriedFunction(FunctionType(fn)).stages) = fn.params
         /\ TypeAfter(CurriedFunction(FunctionType(fn)),
                      Depth(stages, e.stage) + 1)
              = ResultType(FunctionType(fn))

====
